---- MODULE Spec2Model ----
(***************************************************************************)
(* ITU-R P.1814 module (itur/models/itu1814.py): the versioned             *)
(* recommendation instance held in the module global __model, the          *)
(* change_version / get_version operations, the module-level formula       *)
(* wrappers that forward to the active instance, and the methods of the    *)
(* versioned instance that have no wrapper (link margin, suspended         *)
(* particles).  Spec interleaves two callers; SpecCalc makes one call with *)
(* bare-number arguments; SpecArgs makes one call with unit-tagged or      *)
(* array arguments.                                                        *)
(*                                                                         *)
(* Python floats are modelled by exact rationals.  The transcendental      *)
(* library results (x ** alpha, math.log10, math.log) are kept as symbolic *)
(* terms with a rational coefficient; their values at the arguments where  *)
(* the result is rational (0 ** a, 1 ** a, log 1) are computed.            *)
(***************************************************************************)
EXTENDS Integers, Sequences, FiniteSets, TLC

\* ------------------------------------------------------------- bounds
\* change_version calls made in one behaviour
MaxCalls == 2
\* version numbers requested: 0 .. MaxVersion
MaxVersion == 2
\* aperture diameters, in halves of a metre: -2 .. MaxDiamHalves
MaxDiamHalves == 6
\* link distances (km): -1 .. MaxDist
MaxDist == 2
\* beam divergences (mrad): -1 .. MaxDiv
MaxDiv == 2
\* shape parameters, in halves: -MaxMuHalves .. MaxMuHalves
MaxMuHalves == 6
\* rain rates, in halves of a mm/h: -2 .. MaxRainHalves
MaxRainHalves == 4
\* path lengths (km): 1 .. MaxPath
MaxPath == 2
\* elements of an array argument: 1 .. MaxArrayLen
MaxArrayLen == 2
\* link-budget terms, in halves of a dB: -1 .. MaxTerm
MaxTerm == 1
\* visibilities below 1.5 km, in quarters of a km: -1 .. MaxVisQuarters
MaxVisQuarters == 5
\* wavelengths, in twentieths of a micrometre: 7 .. MaxWaveTwentieths
MaxWaveTwentieths == 32

Threads == {"t1", "t2"}

\* ---------------------------------------------------------- rationals
Abs(x) == IF x < 0 THEN -x ELSE x

RECURSIVE GCD(_, _)
GCD(a, b) == IF b = 0 THEN a ELSE GCD(b, a % b)

\* the rational n/d in lowest terms, d > 0
Rat(n, d) ==
  LET s == IF d < 0 THEN -1 ELSE 1
      g == GCD(Abs(n), Abs(d))
  IN  [n |-> (s * n) \div g, d |-> (s * d) \div g]

Zero == Rat(0, 1)
One == Rat(1, 1)

RAdd(x, y) == Rat(x.n * y.d + y.n * x.d, x.d * y.d)
RNeg(x) == [n |-> -x.n, d |-> x.d]
RSub(x, y) == RAdd(x, RNeg(y))
\* cross-cancelled product, so that the intermediate products stay small
RMul(x, y) ==
  LET g1 == GCD(Abs(x.n), y.d)
      g2 == GCD(Abs(y.n), x.d)
  IN  Rat((x.n \div g1) * (y.n \div g2), (x.d \div g2) * (y.d \div g1))
RInv(x) == Rat(x.d, x.n)
RDiv(x, y) == RMul(x, RInv(y))

\* the sign of a/b - c/d for b, d > 0, by the continued-fraction expansions (no
\* product is formed, so no intermediate value outgrows the operands)
RECURSIVE CmpFrac(_, _, _, _)
CmpFrac(a, b, c, d) ==
  LET qa == a \div b
      qc == c \div d
      ra == a % b
      rc == c % d
  IN  IF qa # qc THEN (IF qa < qc THEN -1 ELSE 1)
      ELSE IF ra = 0 /\ rc = 0 THEN 0
      ELSE IF ra = 0 THEN -1
      ELSE IF rc = 0 THEN 1
      ELSE CmpFrac(d, rc, b, ra)
RCmp(x, y) == CmpFrac(x.n, x.d, y.n, y.d)
RLt(x, y) == RCmp(x, y) < 0
RLe(x, y) == RCmp(x, y) <= 0

\* int(x): truncation towards zero
Trunc(x) == IF x.n >= 0 THEN x.n \div x.d ELSE -((-x.n) \div x.d)

\* ------------------------------------------------------ float results
\* A float is q * sym, sym one of: 1, base ** exp, log10(arg), or the
\* difference A* - G of the path attenuation.
SymOne == [fn |-> "one"]
Const(q) == [q |-> q, sym |-> SymOne]
IsConst(x) == x.sym.fn = "one"

\* x ** alpha for floats x >= 0, alpha > 0
Pow(x, alpha) ==
  IF x = Zero THEN Const(Zero)
  ELSE IF x = One THEN Const(One)
  ELSE [q |-> One, sym |-> [fn |-> "pow", base |-> x, exp |-> alpha]]

\* math.log10(x) for x > 0
Log10(x) ==
  IF x = One THEN Const(Zero)
  ELSE [q |-> One, sym |-> [fn |-> "log10", arg |-> x]]

\* r * x
Scale(r, x) ==
  IF r = Zero \/ x.q = Zero THEN Const(Zero)
  ELSE [q |-> RMul(r, x.q), sym |-> x.sym]

\* the sign of a float: -1, 0, 1
SymSign(s) ==
  CASE s.fn = "one" -> 1
    [] s.fn = "pow" -> 1
    [] s.fn = "log10" -> IF RLt(One, s.arg) THEN 1 ELSE -1
    [] OTHER -> s.sign
Sign(x) ==
  IF x.q = Zero THEN 0
  ELSE (IF x.q.n > 0 THEN 1 ELSE -1) * SymSign(x.sym)

\* ------------------------------------------------------ astropy units
UnitNames == {"dB", "km", "m", "mm", "h", "mrad", "rad"}
NoUnit == [n \in UnitNames |-> 0]
BaseUnit(name) == [n \in UnitNames |-> IF n = name THEN 1 ELSE 0]
UnitTimes(a, b) == [n \in UnitNames |-> a[n] + b[n]]
UnitOver(a, b) == [n \in UnitNames |-> a[n] - b[n]]
dB == BaseUnit("dB")
km == BaseUnit("km")
meter == BaseUnit("m")
milliradian == BaseUnit("mrad")
radian == BaseUnit("rad")
millimeter == BaseUnit("mm")
meter_per_hour == UnitOver(BaseUnit("m"), BaseUnit("h"))
mm_per_hour == UnitOver(BaseUnit("mm"), BaseUnit("h"))

\* Python values: a bare number, an astropy Quantity, or None
Num(x) == [kind |-> "number", val |-> x, unit |-> NoUnit]
Quantity(x, unit) == [kind |-> "Quantity", val |-> x, unit |-> unit]
None == [kind |-> "None", val |-> Const(Zero), unit |-> NoUnit]

\* a numpy array of the floats xs, and a Quantity whose value is an array
NDArray(xs) == [kind |-> "ndarray", val |-> [elems |-> xs], unit |-> NoUnit]
QuantityArray(a, unit) == [kind |-> "QuantityArray", val |-> a, unit |-> unit]
IsArray(v) == v.kind \in {"ndarray", "QuantityArray"}

\* the elements of a value, a scalar being broadcast as one element
Elems(v) == IF IsArray(v) THEN v.val.elems ELSE <<v.val>>

\* the value of an element-wise operation on v with the results xs
Like(v, xs) == IF IsArray(v) THEN NDArray(xs) ELSE Num(xs[1])

\* `if <comparison with v>:` raises when v is an array of more than one element
Ambiguous(v) == IsArray(v) /\ Len(v.val.elems) > 1
AmbiguousMessage ==
  "The truth value of an array with more than one element is ambiguous. Use a.any() or a.all()"

\* the float an argument holds where the code uses it as one number
Scalar(v) == Elems(v)[1].q

\* value * unit  (Quantity.__mul__ / Unit.__rmul__)
TimesUnit(v, unit) ==
  IF v.kind = "Quantity" THEN Quantity(v.val, UnitTimes(v.unit, unit))
  ELSE IF v.kind = "QuantityArray" THEN QuantityArray(v.val, UnitTimes(v.unit, unit))
  ELSE IF v.kind = "ndarray" THEN QuantityArray(v.val, unit)
  ELSE Quantity(v.val, unit)
\* value / unit
OverUnit(v, unit) ==
  IF v.kind = "Quantity" THEN Quantity(v.val, UnitOver(v.unit, unit))
  ELSE IF v.kind = "QuantityArray" THEN QuantityArray(v.val, UnitOver(v.unit, unit))
  ELSE IF v.kind = "ndarray" THEN QuantityArray(v.val, UnitOver(NoUnit, unit))
  ELSE Quantity(v.val, UnitOver(NoUnit, unit))

\* getattr(x, "value", x)
ValueOf(v) == v.val

\* ---------------------------------------------------- call outcomes
Return(v, ops) == [exc |-> "", msg |-> "", ret |-> v, ops |-> ops]
Raise(exc, msg, ops) == [exc |-> exc, msg |-> msg, ret |-> None, ops |-> ops]


\* the magnitude of a bare number passed as an argument
Mag(v) == v.val.q

\* ------------------------------------------- class _ITU1814_1_ methods
PiOver4 == Rat(355, 452)
Dec4(n) == Rat(n, 10000)
Dec6(n) == Rat(n, 1000000)

\* (mutant) a negative margin is reported as no margin
ITU1814_1_link_margin_clamped(P_e, S_r, A_geo, A_atmo, A_scintillation, A_system) ==
  LET M_link == RSub(RSub(RSub(RSub(RSub(Mag(P_e), Mag(S_r)), Mag(A_geo)), Mag(A_atmo)),
                          Mag(A_scintillation)), Mag(A_system))
  IN  Return(Num(Const(IF RLt(M_link, Zero) THEN Zero ELSE M_link)), <<"sub", "sub", "sub", "sub", "sub">>)

\* calculate_link_margin: the five subtractions, left to right
ITU1814_1_calculate_link_margin(P_e, S_r, A_geo, A_atmo, A_scintillation, A_system) ==
  LET M_link == RSub(RSub(RSub(RSub(RSub(Mag(P_e), Mag(S_r)), Mag(A_geo)), Mag(A_atmo)),
                          Mag(A_scintillation)), Mag(A_system))
  IN  Return(Num(Const(M_link)), <<"sub", "sub", "sub", "sub", "sub">>)

\* x ** q for floats x > 0, q >= 0
PowQ(x, q) == IF q = Zero THEN Const(One) ELSE Pow(x, q)

\* the exponent q and the branch of the if / elif chain that selects it
SelectQ(visibility) ==
  IF RLt(Rat(50, 1), visibility) THEN [branch |-> "q_above_50", q |-> Rat(16, 10)]
  ELSE IF RLt(Rat(6, 1), visibility) /\ RLe(visibility, Rat(50, 1))
  THEN [branch |-> "q_6_to_50", q |-> Rat(13, 10)]
  ELSE IF RLe(One, visibility) /\ RLe(visibility, Rat(6, 1))
  THEN [branch |-> "q_1_to_6", q |-> RAdd(RMul(Rat(16, 100), visibility), Rat(34, 100))]
  ELSE IF RLe(Rat(1, 2), visibility) /\ RLt(visibility, One)
  THEN [branch |-> "q_half_to_1", q |-> RSub(visibility, Rat(1, 2))]
  ELSE [branch |-> "q_else", q |-> Zero]

\* (mutant) the two ends of the wavelength interval are refused
ITU1814_1_suspended_particles_open_interval(visibility, wavelength) ==
  IF ~(RLt(Rat(4, 10), Mag(wavelength)) /\ RLt(Mag(wavelength), Rat(155, 100)))
  THEN Raise("ValueError", "Wavelength must be between 0.4 um and 1.55 um.", <<"test_wavelength">>)
  ELSE
    LET sel == SelectQ(Mag(visibility))
        gamma_sp == Scale(RMul(Rat(17, 1), Mag(visibility)),
                          PowQ(RDiv(Rat(55, 100), Mag(wavelength)), sel.q))
    IN  Return(Num(gamma_sp), <<"test_wavelength", sel.branch, "div", "pow">>)

\* calculate_specific_attenuation_due_to_suspended_particles (the micro sign
\* of the message is written u)
ITU1814_1_calculate_specific_attenuation_due_to_suspended_particles(visibility, wavelength) ==
  IF ~(RLe(Rat(4, 10), Mag(wavelength)) /\ RLe(Mag(wavelength), Rat(155, 100)))
  THEN Raise("ValueError", "Wavelength must be between 0.4 um and 1.55 um.", <<"test_wavelength">>)
  ELSE
    LET sel == SelectQ(Mag(visibility))
        gamma_sp == Scale(RMul(Rat(17, 1), Mag(visibility)),
                          PowQ(RDiv(Rat(55, 100), Mag(wavelength)), sel.q))
    IN  Return(Num(gamma_sp), <<"test_wavelength", sel.branch, "div", "pow">>)

\* (mutant) only a diameter of exactly zero is refused
ITU1814_1_geometrical_zero_only(capture_surface_diameter_m, Tx_Rx_distance_km, beam_divergence_mrad) ==
  LET D == Mag(capture_surface_diameter_m)
      L == Mag(Tx_Rx_distance_km)
      theta == Mag(beam_divergence_mrad)
  IN
  IF D = Zero
  THEN Raise("ZeroDivisionError", "Capture diameter must be greater than zero.", <<"test_diameter">>)
  ELSE
    LET capture_surface_m == RMul(PiOver4, RMul(D, D))
        s_d == RMul(PiOver4, RMul(RMul(L, theta), RMul(L, theta)))
    IN
    IF RLe(s_d, capture_surface_m)
    THEN Return(TimesUnit(Num(Const(Zero)), dB), <<"test_diameter", "area", "area", "compare">>)
    ELSE Return(TimesUnit(Num(Scale(Rat(10, 1), Log10(RDiv(s_d, capture_surface_m)))), dB),
                <<"test_diameter", "area", "area", "compare", "div", "log10">>)

\* (mutant) the ratio of the areas is taken upside down
ITU1814_1_geometrical_inverted(capture_surface_diameter_m, Tx_Rx_distance_km, beam_divergence_mrad) ==
  LET D == Mag(capture_surface_diameter_m)
      L == Mag(Tx_Rx_distance_km)
      theta == Mag(beam_divergence_mrad)
  IN
  IF RLe(D, Zero)
  THEN Raise("ZeroDivisionError", "Capture diameter must be greater than zero.", <<"test_diameter">>)
  ELSE
    LET capture_surface_m == RMul(PiOver4, RMul(D, D))
        s_d == RMul(PiOver4, RMul(RMul(L, theta), RMul(L, theta)))
    IN
    IF RLe(s_d, capture_surface_m)
    THEN Return(TimesUnit(Num(Const(Zero)), dB), <<"test_diameter", "area", "area", "compare">>)
    ELSE Return(TimesUnit(Num(Scale(Rat(10, 1), Log10(RDiv(capture_surface_m, s_d)))), dB),
                <<"test_diameter", "area", "area", "compare", "div", "log10">>)

\* (mutant) the beam footprint does not grow with the distance
ITU1814_1_geometrical_no_distance(capture_surface_diameter_m, Tx_Rx_distance_km, beam_divergence_mrad) ==
  LET D == Mag(capture_surface_diameter_m)
      theta == Mag(beam_divergence_mrad)
  IN
  IF RLe(D, Zero)
  THEN Raise("ZeroDivisionError", "Capture diameter must be greater than zero.", <<"test_diameter">>)
  ELSE
    LET capture_surface_m == RMul(PiOver4, RMul(D, D))
        s_d == RMul(PiOver4, RMul(theta, theta))
    IN
    IF RLe(s_d, capture_surface_m)
    THEN Return(TimesUnit(Num(Const(Zero)), dB), <<"test_diameter", "area", "area", "compare">>)
    ELSE Return(TimesUnit(Num(Scale(Rat(10, 1), Log10(RDiv(s_d, capture_surface_m)))), dB),
                <<"test_diameter", "area", "area", "compare", "div", "log10">>)

\* calculate_geometrical_attenuation: the instance method, on the numbers the
\* wrapper hands it
ITU1814_1_calculate_geometrical_attenuation(capture_surface_diameter_m, Tx_Rx_distance_km, beam_divergence_mrad) ==
  LET D == Scalar(capture_surface_diameter_m)
      L == Scalar(Tx_Rx_distance_km)
      theta == Scalar(beam_divergence_mrad)
  IN
  IF Ambiguous(capture_surface_diameter_m)
  THEN Raise("ValueError", AmbiguousMessage, <<"test_diameter">>)
  ELSE IF RLe(D, Zero)
  THEN Raise("ZeroDivisionError", "Capture diameter must be greater than zero.", <<"test_diameter">>)
  ELSE IF Ambiguous(Tx_Rx_distance_km) \/ Ambiguous(beam_divergence_mrad)
  THEN Raise("ValueError", AmbiguousMessage, <<"test_diameter", "area", "area", "compare">>)
  ELSE
    LET capture_surface_m == RMul(PiOver4, RMul(D, D))
        s_d == RMul(PiOver4, RMul(RMul(L, theta), RMul(L, theta)))
    IN
    IF RLe(s_d, capture_surface_m)
    THEN Return(TimesUnit(Num(Const(Zero)), dB), <<"test_diameter", "area", "area", "compare">>)
    ELSE IF capture_surface_m = Zero
    THEN Raise("ZeroDivisionError", "float division by zero", <<"test_diameter", "area", "area", "compare", "div">>)
    ELSE Return(TimesUnit(Num(Scale(Rat(10, 1), Log10(RDiv(s_d, capture_surface_m)))), dB),
                <<"test_diameter", "area", "area", "compare", "div", "log10">>)

\* (mutant) the rows for mu = 1 and mu = 2 are exchanged
rain_coefficients_swapped ==
  (-2 :> <<Dec4(22838), Dec4(4050)>>) @@ (-1 :> <<Dec4(15921), Dec4(5506)>>) @@
  (0 :> <<Dec4(12924), Dec4(6436)>>) @@ (1 :> <<Dec4(10505), Dec4(7497)>>) @@
  (2 :> <<Dec4(11394), Dec4(7057)>>)

\* the (k, alpha) table of specific_attenuation_due_to_rain
rain_coefficients ==
  (-2 :> <<Dec4(22838), Dec4(4050)>>) @@ (-1 :> <<Dec4(15921), Dec4(5506)>>) @@
  (0 :> <<Dec4(12924), Dec4(6436)>>) @@ (1 :> <<Dec4(11394), Dec4(7057)>>) @@
  (2 :> <<Dec4(10505), Dec4(7497)>>)

\* dsd_shape_param in coefficients: an int key, or a float equal to one
InCoefficients(mu, table) == Mag(mu).d = 1 /\ Mag(mu).n \in DOMAIN table

\* (mutant) the rain rate is not tested
ITU1814_1_specific_no_rain_test(rain_rate, dsd_shape_param) ==
  IF ~InCoefficients(dsd_shape_param, rain_coefficients)
  THEN Raise("ValueError", "DSD shape parameter must be an integer between -2 and 2.", <<"test_mu">>)
  ELSE
    LET row == rain_coefficients[Mag(dsd_shape_param).n]
    IN Return(Num(Scale(row[1], Pow(Mag(rain_rate), row[2]))), <<"test_mu", "lookup", "pow">>)

ITU1814_1_specific_attenuation_due_to_rain(rain_rate, dsd_shape_param) ==
  IF ~InCoefficients(dsd_shape_param, rain_coefficients)
  THEN Raise("ValueError", "DSD shape parameter must be an integer between -2 and 2.", <<"test_mu">>)
  ELSE IF Ambiguous(rain_rate)
  THEN Raise("ValueError", AmbiguousMessage, <<"test_mu", "test_rain_rate">>)
  ELSE IF RLt(Scalar(rain_rate), Zero)
  THEN Raise("ValueError", "Rain rate (R) must be non-negative.", <<"test_mu", "test_rain_rate">>)
  ELSE
    LET row == rain_coefficients[Mag(dsd_shape_param).n]
        k == row[1]
        alpha == row[2]
        R == Elems(rain_rate)
    IN Return(Like(rain_rate, [i \in DOMAIN R |-> Scale(k, Pow(R[i].q, alpha))]),
              <<"test_mu", "test_rain_rate", "lookup", "pow">>)

\* the (p0, p1, p2, k0, k1, k2) table of path_attentuation_due_to_rain
path_coefficients ==
  (-2 :> <<Dec6(10012), Dec6(25381), Dec6(-1606), Dec6(250329), Dec6(-35278), Dec6(8349)>>) @@
  (-1 :> <<Dec6(14551), Dec6(10932), Dec6(1532), Dec6(279336), Dec6(23974), Dec6(4421)>>) @@
  (0 :> <<Dec6(15940), Dec6(-1476), Dec6(8297), Dec6(117663), Dec6(29602), Dec6(2142)>>) @@
  (1 :> <<Dec6(23468), Dec6(2897), Dec6(8912), Dec6(90689), Dec6(34955), Dec6(4583)>>) @@
  (2 :> <<Dec6(-316), Dec6(62233), Dec6(-7835), Dec6(192092), Dec6(-81869), Dec6(33669)>>)

\* c0 + c1*math.log(R) + c2*math.log(R)**2, for R > 0: the constant c0 at R = 1,
\* else the polynomial in ln R kept as written
LogPoly(c0, c1, c2, R) ==
  IF R = One THEN Const(c0)
  ELSE [q |-> One, sym |-> [fn |-> "logpoly", c0 |-> c0, c1 |-> c1, c2 |-> c2, arg |-> R]]

\* a_ms * L ** b_ms, for L > 0
G_ms(a_ms, L, b_ms) ==
  IF L = One THEN a_ms
  ELSE IF IsConst(b_ms) /\ IsConst(a_ms) THEN Scale(a_ms.q, Pow(L, b_ms.q))
  ELSE [q |-> One, sym |-> [fn |-> "G", a |-> a_ms, L |-> L, b |-> b_ms]]

\* the sign of a float where its form shows it: -1, 0, 1, and 2 where not
KnownSign(x) ==
  IF x.q = Zero \/ x.sym.fn \in {"one", "pow", "log10"} THEN Sign(x) ELSE 2

\* star - G, kept as written with its sign: computed when both are rational or
\* when zero lies between them, else the sign cmp that the float comparison of
\* the code finds it to have
StarMinusG(star, G, cmp) ==
  LET ss == KnownSign(star)
      sg == KnownSign(G)
  IN
  [q |-> One,
   sym |-> [fn |-> "star_minus_G", star |-> star, G |-> G,
            sign |-> IF IsConst(star) /\ IsConst(G) THEN RCmp(star.q, G.q)
                     ELSE IF ss \in {-1, 0} /\ sg \in {0, 1} THEN -1
                     ELSE IF ss \in {0, 1} /\ sg \in {-1, 0} THEN 1
                     ELSE cmp]]

\* (mutant) the difference A* - G is returned as it is, negative or not
ITU1814_1_path_no_clamp(rain_rate, dsd_shape_param, path_length, cmp) ==
  LET gamma == ITU1814_1_specific_attenuation_due_to_rain(rain_rate, dsd_shape_param)
  IN
  IF gamma.exc # "" THEN gamma
  ELSE
    LET gamma_rain_float == ValueOf(gamma.ret)
        rain_rate_float == ValueOf(rain_rate).q
        path_length_float == ValueOf(path_length).q
        den == RAdd(One, RDiv(RMul(path_length_float, RSub(rain_rate_float, Rat(62, 10))), Rat(2623, 1)))
        ops1 == gamma.ops \o <<"div_F">>
    IN
    IF den = Zero
    THEN Raise("ZeroDivisionError", "float division by zero", ops1)
    ELSE
      LET F_rain == RInv(den) IN
      IF ~InCoefficients(dsd_shape_param, path_coefficients)
      THEN Raise("ValueError", "DSD shape parameter must be an integer between -2 and 2.", ops1 \o <<"test_mu">>)
      ELSE IF RLt(Mag(rain_rate), Zero)
      THEN Raise("ValueError", "Rain rate (R) must be non-negative.", ops1 \o <<"test_mu", "test_rain_rate">>)
      ELSE
        LET row == path_coefficients[Mag(dsd_shape_param).n]
            ops2 == ops1 \o <<"test_mu", "test_rain_rate", "lookup">>
        IN
        IF RLe(rain_rate_float, Zero)
        THEN Return(TimesUnit(Num(Const(Zero)), dB), ops2 \o <<"test_no_rain">>)
        ELSE
          LET path_attenuation_rain_star == Scale(RMul(path_length_float, F_rain), gamma_rain_float)
              a_ms == LogPoly(row[1], row[2], row[3], rain_rate_float)
              b_ms == LogPoly(row[4], row[5], row[6], rain_rate_float)
              G == G_ms(a_ms, path_length_float, b_ms)
              path_attenuation_rain == StarMinusG(path_attenuation_rain_star, G, cmp)
              ops3 == ops2 \o <<"test_no_rain", "log", "log", "pow", "test_clamp">>
          IN
          Return(TimesUnit(Num(path_attenuation_rain), dB), ops3)

\* path_attentuation_due_to_rain: the instance method.  cmp is the sign of
\* A* - G as the float arithmetic finds it, used where the model keeps
\* A* - G symbolic.
ITU1814_1_path_attentuation_due_to_rain(rain_rate, dsd_shape_param, path_length, cmp) ==
  LET gamma == ITU1814_1_specific_attenuation_due_to_rain(rain_rate, dsd_shape_param)
  IN
  IF gamma.exc # "" THEN gamma
  ELSE
    LET gamma_rain_float == ValueOf(gamma.ret)
        rain_rate_float == ValueOf(rain_rate).q
        path_length_float == ValueOf(path_length).q
        den == RAdd(One, RDiv(RMul(path_length_float, RSub(rain_rate_float, Rat(62, 10))), Rat(2623, 1)))
        ops1 == gamma.ops \o <<"div_F">>
    IN
    IF den = Zero
    THEN Raise("ZeroDivisionError", "float division by zero", ops1)
    ELSE
      LET F_rain == RInv(den) IN
      IF ~InCoefficients(dsd_shape_param, path_coefficients)
      THEN Raise("ValueError", "DSD shape parameter must be an integer between -2 and 2.", ops1 \o <<"test_mu">>)
      ELSE IF RLt(Mag(rain_rate), Zero)
      THEN Raise("ValueError", "Rain rate (R) must be non-negative.", ops1 \o <<"test_mu", "test_rain_rate">>)
      ELSE
        LET row == path_coefficients[Mag(dsd_shape_param).n]
            ops2 == ops1 \o <<"test_mu", "test_rain_rate", "lookup">>
        IN
        IF RLe(rain_rate_float, Zero)
        THEN Return(TimesUnit(Num(Const(Zero)), dB), ops2 \o <<"test_no_rain">>)
        ELSE
          LET path_attenuation_rain_star == Scale(RMul(path_length_float, F_rain), gamma_rain_float)
              a_ms == LogPoly(row[1], row[2], row[3], rain_rate_float)
              b_ms == LogPoly(row[4], row[5], row[6], rain_rate_float)
              G == G_ms(a_ms, path_length_float, b_ms)
              path_attenuation_rain == StarMinusG(path_attenuation_rain_star, G, cmp)
              ops3 == ops2 \o <<"test_no_rain", "log", "log", "pow", "test_clamp">>
          IN
          IF Sign(path_attenuation_rain) <= 0
          THEN Return(TimesUnit(Num(Const(Zero)), dB), ops3)
          ELSE Return(TimesUnit(Num(path_attenuation_rain), dB), ops3)


\* ---------------------------------------------------------- the heap
\* Objects are records; a field not yet assigned holds 0 (references and the
\* integer fields of the code are all positive) or "".
NewOuter == [cls |-> "__ITU1814__", instance |-> 0, version |-> 0, year |-> 0, month |-> 0, link |-> ""]
NewInner == [cls |-> "_ITU1814_1_", instance |-> 0, version |-> 0, year |-> 0, month |-> 0, link |-> ""]
Link1 == "https://www.itu.int/rec/R-REC-P.1814-1-202509-I/en"

\* an object all of whose fields __init__ has assigned
Constructed(h, ref) ==
  /\ ref \in DOMAIN h
  /\ h[ref].cls = "__ITU1814__"
  /\ h[ref].instance \in DOMAIN h
  /\ LET i == h[h[ref].instance]
     IN  i.cls = "_ITU1814_1_" /\ i.version # 0 /\ i.year # 0 /\ i.month # 0 /\ i.link # ""

\* ----------------------------------------- class __ITU1814__ methods
\* self.instance.<method>(...): the attribute read fails on an object whose
\* __init__ has not assigned instance
ITU1814_calculate_link_margin(h, ref, P_e, S_r, A_geo, A_atmo, A_scintillation, A_system) ==
  IF h[ref].instance = 0 THEN Raise("AttributeError", "instance", <<>>)
  ELSE ITU1814_1_calculate_link_margin(P_e, S_r, A_geo, A_atmo, A_scintillation, A_system)

ITU1814_calculate_specific_attenuation_due_to_suspended_particles(h, ref, visibility, wavelength) ==
  IF h[ref].instance = 0 THEN Raise("AttributeError", "instance", <<>>)
  ELSE ITU1814_1_calculate_specific_attenuation_due_to_suspended_particles(visibility, wavelength)

ITU1814_calculate_geometrical_attenuation(h, ref, D, L, theta) ==
  IF h[ref].instance = 0 THEN Raise("AttributeError", "instance", <<>>)
  ELSE ITU1814_1_calculate_geometrical_attenuation(D, L, theta)

ITU1814_specific_attenuation_due_to_rain(h, ref, rain_rate, dsd_shape_param) ==
  IF h[ref].instance = 0 THEN Raise("AttributeError", "instance", <<>>)
  ELSE ITU1814_1_specific_attenuation_due_to_rain(rain_rate, dsd_shape_param)

ITU1814_path_attentuation_due_to_rain(h, ref, rain_rate, dsd_shape_param, path_length, cmp) ==
  IF h[ref].instance = 0 THEN Raise("AttributeError", "instance", <<>>)
  ELSE ITU1814_1_path_attentuation_due_to_rain(rain_rate, dsd_shape_param, path_length, cmp)

\* the __version__ property
ITU1814_version(h, ref) ==
  IF h[ref].instance = 0 THEN Raise("AttributeError", "instance", <<>>)
  ELSE IF h[h[ref].instance].version = 0 THEN Raise("AttributeError", "__version__", <<>>)
  ELSE Return(Num(Const(Rat(h[h[ref].instance].version, 1))), <<>>)

\* ------------------------------------------- module-level functions
\* itur.utils.prepare_quantity: the magnitude of the value in the given unit; a
\* bare number is taken to be in that unit already
Exp10(unit) == 3 * unit["km"] - 3 * unit["mm"] - 3 * unit["mrad"]
Factor(from, to) ==
  LET e == Exp10(from) - Exp10(to)
  IN  IF e >= 0 THEN Rat(10 ^ e, 1) ELSE Rat(1, 10 ^ (-e))
prepare_quantity(value, units) ==
  IF value.kind = "Quantity" THEN Num(Scale(Factor(value.unit, units), value.val))
  ELSE value

\* int(dsd_shape_param)
int(x) == Num(Const(Rat(Trunc(Mag(x)), 1)))

\* ref is the object the function read from the global __model
calculate_geometrical_attenuation(h, ref, capture_surface_diameter_m, Tx_Rx_distance_km, beam_divergence_mrad) ==
  ITU1814_calculate_geometrical_attenuation(h, ref,
      prepare_quantity(capture_surface_diameter_m, meter),
      prepare_quantity(Tx_Rx_distance_km, km),
      prepare_quantity(beam_divergence_mrad, milliradian))

specific_attenuation_due_to_rain(h, ref, rain_rate, dsd_shape_param) ==
  LET gamma_rain == ITU1814_specific_attenuation_due_to_rain(h, ref,
                        prepare_quantity(rain_rate, mm_per_hour), int(dsd_shape_param))
  IN  IF gamma_rain.exc # "" THEN gamma_rain
      ELSE Return(OverUnit(TimesUnit(gamma_rain.ret, dB), km), gamma_rain.ops)

path_attentuation_due_to_rain(h, ref, rain_rate, dsd_shape_param, path_length, cmp) ==
  LET path_attenuation_rain == ITU1814_path_attentuation_due_to_rain(h, ref,
                        prepare_quantity(rain_rate, mm_per_hour), int(dsd_shape_param),
                        TimesUnit(path_length, km), cmp)
  IN  IF path_attenuation_rain.exc # "" THEN path_attenuation_rain
      ELSE Return(TimesUnit(path_attenuation_rain.ret, dB), path_attenuation_rain.ops)


\* get_version(), read in one piece from the object ref
get_version(h, ref) == ITU1814_version(h, ref)

\* ------------------------------------------------------------- state
VARIABLES
  heap,    \* the objects allocated so far, by reference 1 .. Len(heap)
  model,   \* the module global __model: a reference
  pc,      \* where each thread is in the call it is making
  frame,   \* each thread's locals
  last,    \* the call that returned or raised last, with its outcome
  ncalls,  \* change_version calls made
  input    \* the formula call to make, where one call is studied alone

vars == <<heap, model, pc, frame, last, ncalls, input>>

NoFrame == [self |-> 0, inner |-> 0, arg |-> 0, ref |-> 0, inst |-> 0]

Outcome(op, args, res) ==
  [op |-> op, args |-> args, exc |-> res.exc, msg |-> res.msg, ret |-> res.ret, ops |-> res.ops]

\* the module as loaded
LoadedHeap ==
  << [NewOuter EXCEPT !.instance = 2],
     [NewInner EXCEPT !.version = 1, !.year = 2025, !.month = 9, !.link = Link1] >>

\* module load: __model = __ITU1814__()
Init ==
  /\ heap = << [NewOuter EXCEPT !.instance = 2],
               [NewInner EXCEPT !.version = 1, !.year = 2025, !.month = 9, !.link = Link1] >>
  /\ model = 1
  /\ pc = [t \in Threads |-> "idle"]
  /\ frame = [t \in Threads |-> NoFrame]
  /\ last = Outcome("import", <<>>, Return(None, <<>>))
  /\ ncalls = 0
  /\ input = [fn |-> "", args |-> <<>>, cmp |-> 0]

\* ---------------------------------------------------- change_version
Versions == 0 .. MaxVersion

\* (mutant) the new object is bound to __model before its __init__ has run
CvCall_publish_first(t, v) ==
  /\ pc[t] = "idle"
  /\ ncalls < MaxCalls
  /\ heap' = Append(heap, NewOuter)
  /\ model' = Len(heap) + 1
  /\ frame' = [frame EXCEPT ![t] = [NoFrame EXCEPT !.self = Len(heap) + 1, !.arg = v]]
  /\ pc' = [pc EXCEPT ![t] = "init"]
  /\ ncalls' = ncalls + 1
  /\ UNCHANGED <<last, input>>

\* change_version(new_version) is entered and __ITU1814__(new_version) allocates
\* the new object, no field of it assigned
CvCall(t, v) ==
  /\ pc[t] = "idle"
  /\ ncalls < MaxCalls
  /\ heap' = Append(heap, NewOuter)
  /\ frame' = [frame EXCEPT ![t] = [NoFrame EXCEPT !.self = Len(heap) + 1, !.arg = v]]
  /\ pc' = [pc EXCEPT ![t] = "init"]
  /\ ncalls' = ncalls + 1
  /\ UNCHANGED <<model, last, input>>

\* (mutant) an unsupported version falls back to version 1 without an error
ITU1814_init_fallback(t) ==
  /\ pc[t] = "init"
  /\ heap' = Append(heap, NewInner)
  /\ frame' = [frame EXCEPT ![t].inner = Len(heap) + 1]
  /\ pc' = [pc EXCEPT ![t] = "inner_version"]
  /\ UNCHANGED <<model, last, ncalls, input>>

\* __ITU1814__.__init__: version 1 allocates _ITU1814_1_(), any other raises
ITU1814_init(t) ==
  /\ pc[t] = "init"
  /\ IF frame[t].arg = 1
     THEN /\ heap' = Append(heap, NewInner)
          /\ frame' = [frame EXCEPT ![t].inner = Len(heap) + 1]
          /\ pc' = [pc EXCEPT ![t] = "inner_version"]
          /\ UNCHANGED last
     ELSE /\ last' = Outcome("change_version", <<Num(Const(Rat(frame[t].arg, 1)))>>,
                             Raise("ValueError", "Version is not implemented", <<>>))
          /\ frame' = [frame EXCEPT ![t] = NoFrame]
          /\ pc' = [pc EXCEPT ![t] = "idle"]
          /\ UNCHANGED heap
  /\ UNCHANGED <<model, ncalls, input>>

\* (mutant) the version tag counts the instances constructed
ITU1814_1_init_version_counting(t) ==
  /\ pc[t] = "inner_version"
  /\ heap' = [heap EXCEPT ![frame[t].inner].version = Len(heap) \div 2]
  /\ pc' = [pc EXCEPT ![t] = "inner_year"]
  /\ UNCHANGED <<model, frame, last, ncalls, input>>

\* _ITU1814_1_.__init__, one assignment a step
ITU1814_1_init_version(t) ==
  /\ pc[t] = "inner_version"
  /\ heap' = [heap EXCEPT ![frame[t].inner].version = 1]
  /\ pc' = [pc EXCEPT ![t] = "inner_year"]
  /\ UNCHANGED <<model, frame, last, ncalls, input>>

ITU1814_1_init_year(t) ==
  /\ pc[t] = "inner_year"
  /\ heap' = [heap EXCEPT ![frame[t].inner].year = 2025]
  /\ pc' = [pc EXCEPT ![t] = "inner_month"]
  /\ UNCHANGED <<model, frame, last, ncalls, input>>

ITU1814_1_init_month(t) ==
  /\ pc[t] = "inner_month"
  /\ heap' = [heap EXCEPT ![frame[t].inner].month = 9]
  /\ pc' = [pc EXCEPT ![t] = "inner_link"]
  /\ UNCHANGED <<model, frame, last, ncalls, input>>

ITU1814_1_init_link(t) ==
  /\ pc[t] = "inner_link"
  /\ heap' = [heap EXCEPT ![frame[t].inner].link = Link1]
  /\ pc' = [pc EXCEPT ![t] = "set_instance"]
  /\ UNCHANGED <<model, frame, last, ncalls, input>>

\* self.instance = <the constructed _ITU1814_1_>
ITU1814_set_instance(t) ==
  /\ pc[t] = "set_instance"
  /\ heap' = [heap EXCEPT ![frame[t].self].instance = frame[t].inner]
  /\ pc' = [pc EXCEPT ![t] = "store_global"]
  /\ UNCHANGED <<model, frame, last, ncalls, input>>

\* (mutant) the versioned instance, not the dispatcher object, is stored
CvStore_inner(t) ==
  /\ pc[t] = "store_global"
  /\ model' = frame[t].inner
  /\ last' = Outcome("change_version", <<Num(Const(Rat(frame[t].arg, 1)))>>, Return(None, <<>>))
  /\ frame' = [frame EXCEPT ![t] = NoFrame]
  /\ pc' = [pc EXCEPT ![t] = "idle"]
  /\ UNCHANGED <<heap, ncalls, input>>

\* __model = <the constructed __ITU1814__>, and change_version returns
CvStore(t) ==
  /\ pc[t] = "store_global"
  /\ model' = frame[t].self
  /\ last' = Outcome("change_version", <<Num(Const(Rat(frame[t].arg, 1)))>>, Return(None, <<>>))
  /\ frame' = [frame EXCEPT ![t] = NoFrame]
  /\ pc' = [pc EXCEPT ![t] = "idle"]
  /\ UNCHANGED <<heap, ncalls, input>>

\* ------------------------------------------------------- get_version
\* get_version reads the global __model
GvLoad(t) ==
  /\ pc[t] = "idle"
  /\ frame' = [frame EXCEPT ![t] = [NoFrame EXCEPT !.ref = model]]
  /\ pc' = [pc EXCEPT ![t] = "gv_instance"]
  /\ UNCHANGED <<heap, model, last, ncalls, input>>

\* the __version__ property reads self.instance
GvInstance(t) ==
  /\ pc[t] = "gv_instance"
  /\ IF heap[frame[t].ref].instance = 0
     THEN /\ last' = Outcome("get_version", <<>>, Raise("AttributeError", "instance", <<>>))
          /\ frame' = [frame EXCEPT ![t] = NoFrame]
          /\ pc' = [pc EXCEPT ![t] = "idle"]
     ELSE /\ frame' = [frame EXCEPT ![t].inst = heap[frame[t].ref].instance]
          /\ pc' = [pc EXCEPT ![t] = "gv_version"]
          /\ UNCHANGED last
  /\ UNCHANGED <<heap, model, ncalls, input>>

\* it reads the instance's __version__ and get_version returns it
GvVersion(t) ==
  /\ pc[t] = "gv_version"
  /\ last' = Outcome("get_version", <<>>,
                     IF heap[frame[t].inst].version = 0
                     THEN Raise("AttributeError", "__version__", <<>>)
                     ELSE Return(Num(Const(Rat(heap[frame[t].inst].version, 1))), <<>>))
  /\ frame' = [frame EXCEPT ![t] = NoFrame]
  /\ pc' = [pc EXCEPT ![t] = "idle"]
  /\ UNCHANGED <<heap, model, ncalls, input>>


\* ------------------------------------------------ formula calls
F(n, d) == Num(Const(Rat(n, d)))

\* the arguments the calls are made with (bare numbers in the documented units)
Diams == {F(n, 2) : n \in -2 .. MaxDiamHalves}
Dists == {F(n, 1) : n \in -1 .. MaxDist}
Divs == {F(n, 1) : n \in -1 .. MaxDiv}
Mus == {F(n, 2) : n \in -MaxMuHalves .. MaxMuHalves}
Rains == {F(n, 2) : n \in -2 .. MaxRainHalves}
\* 2623 / 6.2 km, where 1 + L * (0 - 6.2) / 2623 is zero, and a path long
\* enough for the path-averaging factor to be negative in light rain
SingularPath == F(13115, 31)
LongPath == F(1000, 1)
Paths == {F(n, 1) : n \in 1 .. MaxPath} \cup {SingularPath, LongPath}
Cmps == {-1, 0, 1}
Terms == {F(n, 2) : n \in -1 .. MaxTerm}
Visibilities == {F(n, 4) : n \in -1 .. MaxVisQuarters} \cup {F(5, 1), F(6, 1), F(7, 1), F(50, 1), F(51, 1)}
Wavelengths == {F(n, 20) : n \in 7 .. MaxWaveTwentieths}

\* the arguments of the calls made while versions are being changed
\* (at R = 1, L = 1 the path attenuation is rational: no sign is left open)
ProbeDiams == {F(0, 1), F(1, 1)}
ProbeDists == {F(1, 1)}
ProbeDivs == {F(2, 1)}
ProbeMus == {F(0, 1), F(3, 1)}
ProbeRains == {F(1, 1)}
ProbePaths == {F(1, 1)}
ProbeCmp == CHOOSE c \in Cmps : TRUE

\* a module-level formula reads the global __model (its arguments are local)
FLoad(t, fn) ==
  /\ pc[t] = "idle"
  /\ frame' = [frame EXCEPT ![t] = [NoFrame EXCEPT !.ref = model]]
  /\ pc' = [pc EXCEPT ![t] = fn]
  /\ UNCHANGED <<heap, model, last, ncalls, input>>

\* and calls the method of the object it read
FCallGeo(t) ==
  /\ pc[t] = "calculate_geometrical_attenuation"
  /\ \E D \in ProbeDiams, L \in ProbeDists, theta \in ProbeDivs :
       last' = Outcome(pc[t], <<D, L, theta>>,
                       calculate_geometrical_attenuation(heap, frame[t].ref, D, L, theta))
  /\ frame' = [frame EXCEPT ![t] = NoFrame]
  /\ pc' = [pc EXCEPT ![t] = "idle"]
  /\ UNCHANGED <<heap, model, ncalls, input>>

FCallSpecific(t) ==
  /\ pc[t] = "specific_attenuation_due_to_rain"
  /\ \E R \in ProbeRains, mu \in ProbeMus :
       last' = Outcome(pc[t], <<R, mu>>,
                       specific_attenuation_due_to_rain(heap, frame[t].ref, R, mu))
  /\ frame' = [frame EXCEPT ![t] = NoFrame]
  /\ pc' = [pc EXCEPT ![t] = "idle"]
  /\ UNCHANGED <<heap, model, ncalls, input>>

FCallPath(t) ==
  /\ pc[t] = "path_attentuation_due_to_rain"
  /\ \E R \in ProbeRains, mu \in ProbeMus, L \in ProbePaths :
       last' = Outcome(pc[t], <<R, mu, L>>,
                       path_attentuation_due_to_rain(heap, frame[t].ref, R, mu, L, ProbeCmp))
  /\ frame' = [frame EXCEPT ![t] = NoFrame]
  /\ pc' = [pc EXCEPT ![t] = "idle"]
  /\ UNCHANGED <<heap, model, ncalls, input>>

Formulas == {"calculate_geometrical_attenuation", "specific_attenuation_due_to_rain",
             "path_attentuation_due_to_rain"}

Next ==
  \E t \in Threads :
    \/ \E v \in Versions : CvCall(t, v)
    \/ ITU1814_init(t)
    \/ ITU1814_1_init_version(t)
    \/ ITU1814_1_init_year(t)
    \/ ITU1814_1_init_month(t)
    \/ ITU1814_1_init_link(t)
    \/ ITU1814_set_instance(t)
    \/ CvStore(t)
    \/ GvLoad(t)
    \/ GvInstance(t)
    \/ GvVersion(t)
    \/ \E fn \in Formulas : FLoad(t, fn)
    \/ FCallGeo(t)
    \/ FCallSpecific(t)
    \/ FCallPath(t)

Spec == Init /\ [][Next]_vars

\* ------------------------------------------- one caller, no change
\* The formulas over their whole argument ranges: one call, by one thread, on
\* the instance the module was loaded with.  input is the call to be made.
NoInput == [fn |-> "", args |-> <<>>, cmp |-> 0]

\* calculate_link_margin has no module-level wrapper: it is called on the
\* dispatcher object or on the versioned instance it holds
LinkMargins == {"__ITU1814__.calculate_link_margin", "_ITU1814_1_.calculate_link_margin"}

Inputs ==
  {[fn |-> "calculate_geometrical_attenuation", args |-> <<D, L, theta>>, cmp |-> 0] :
      D \in Diams, L \in Dists, theta \in Divs}
  \cup {[fn |-> "specific_attenuation_due_to_rain", args |-> <<R, mu>>, cmp |-> 0] :
      R \in Rains, mu \in Mus}
  \cup {[fn |-> "path_attentuation_due_to_rain", args |-> <<R, mu, L>>, cmp |-> c] :
      R \in Rains, mu \in Mus, L \in Paths, c \in Cmps}
  \cup {[fn |-> f, args |-> <<P_e, S_r, A_geo, A_atmo, A_scintillation, A_system>>, cmp |-> 0] :
      f \in LinkMargins, P_e \in Terms, S_r \in Terms, A_geo \in Terms, A_atmo \in Terms,
      A_scintillation \in Terms, A_system \in Terms}
  \cup {[fn |-> "calculate_specific_attenuation_due_to_suspended_particles",
          args |-> <<visibility, wavelength>>, cmp |-> 0] :
      visibility \in Visibilities, wavelength \in Wavelengths}

InitCalc ==
  /\ heap = << [NewOuter EXCEPT !.instance = 2],
               [NewInner EXCEPT !.version = 1, !.year = 2025, !.month = 9, !.link = Link1] >>
  /\ model = 1
  /\ pc = [t \in Threads |-> "idle"]
  /\ frame = [t \in Threads |-> NoFrame]
  /\ last = Outcome("import", <<>>, Return(None, <<>>))
  /\ ncalls = 0
  /\ input \in Inputs

CalcGeo ==
  /\ input.fn = "calculate_geometrical_attenuation"
  /\ last.op = "import"
  /\ last' = Outcome(input.fn, input.args,
                     calculate_geometrical_attenuation(heap, model, input.args[1], input.args[2], input.args[3]))
  /\ UNCHANGED <<heap, model, pc, frame, ncalls, input>>

CalcSpecific ==
  /\ input.fn = "specific_attenuation_due_to_rain"
  /\ last.op = "import"
  /\ last' = Outcome(input.fn, input.args,
                     specific_attenuation_due_to_rain(heap, model, input.args[1], input.args[2]))
  /\ UNCHANGED <<heap, model, pc, frame, ncalls, input>>

CalcPath ==
  /\ input.fn = "path_attentuation_due_to_rain"
  /\ last.op = "import"
  /\ last' = Outcome(input.fn, input.args,
                     path_attentuation_due_to_rain(heap, model, input.args[1], input.args[2], input.args[3], input.cmp))
  /\ UNCHANGED <<heap, model, pc, frame, ncalls, input>>

\* __model.calculate_link_margin(...)
CalcLinkMarginDispatcher ==
  /\ input.fn = "__ITU1814__.calculate_link_margin"
  /\ last.op = "import"
  /\ last' = Outcome(input.fn, input.args,
                     ITU1814_calculate_link_margin(heap, model, input.args[1], input.args[2], input.args[3],
                                                   input.args[4], input.args[5], input.args[6]))
  /\ UNCHANGED <<heap, model, pc, frame, ncalls, input>>

\* __model.instance.calculate_link_margin(...)
CalcLinkMarginInstance ==
  /\ input.fn = "_ITU1814_1_.calculate_link_margin"
  /\ last.op = "import"
  /\ last' = Outcome(input.fn, input.args,
                     ITU1814_1_calculate_link_margin(input.args[1], input.args[2], input.args[3],
                                                     input.args[4], input.args[5], input.args[6]))
  /\ UNCHANGED <<heap, model, pc, frame, ncalls, input>>

\* __model.calculate_specific_attenuation_due_to_suspended_particles(...)
CalcSuspendedParticles ==
  /\ input.fn = "calculate_specific_attenuation_due_to_suspended_particles"
  /\ last.op = "import"
  /\ last' = Outcome(input.fn, input.args,
                     ITU1814_calculate_specific_attenuation_due_to_suspended_particles(
                         heap, model, input.args[1], input.args[2]))
  /\ UNCHANGED <<heap, model, pc, frame, ncalls, input>>

NextCalc ==
  \/ CalcGeo
  \/ CalcSpecific
  \/ CalcPath
  \/ CalcLinkMarginDispatcher
  \/ CalcLinkMarginInstance
  \/ CalcSuspendedParticles

SpecCalc == InitCalc /\ [][NextCalc]_vars


\* --------------------------------------- unit-tagged arguments
\* The module-level formulas called with each argument given as a bare number
\* or as a Quantity in one of several units.  canon holds the same physical
\* arguments as bare numbers in the documented units.

\* the bare number x of the unit canonical, as a Quantity in the unit given
Tagged(x, canonical, unit) == Quantity(Scale(Factor(canonical, unit), x.val), unit)

\* x as a bare number and as a Quantity in each of the units
Forms(x, canonical, units) == {x} \cup {Tagged(x, canonical, unit) : unit \in units}

LengthUnits == {km, meter}
DiameterUnits == {meter, millimeter}
AngleUnits == {milliradian, radian}
RateUnits == {mm_per_hour, meter_per_hour}

ArgDiams == {F(n, 2) : n \in 0 .. 2}
ArgDists == {F(n, 1) : n \in 1 .. MaxDist}
ArgDivs == {F(n, 1) : n \in 1 .. MaxDiv}
ArgRains == {F(n, 2) : n \in -1 .. MaxRainHalves}
ArgMus == {F(0, 1), F(2, 1), F(3, 1)}
ArgPaths == {F(n, 1) : n \in 1 .. MaxPath}

\* the arrays of 1 .. MaxArrayLen of the numbers S
Arrays(S) ==
  UNION {{NDArray([i \in 1 .. n |-> f[i].val]) : f \in [1 .. n -> S]} : n \in 1 .. MaxArrayLen}

ArgInputs ==
  UNION {
    {[fn |-> "calculate_geometrical_attenuation", args |-> <<D, L, theta>>, cmp |-> 0, canon |-> x] :
        D \in Forms(x[1], meter, DiameterUnits), L \in Forms(x[2], km, LengthUnits),
        theta \in Forms(x[3], milliradian, AngleUnits)} :
    x \in ArgDiams \X ArgDists \X ArgDivs}
  \cup UNION {
    {[fn |-> "specific_attenuation_due_to_rain", args |-> <<R, x[2]>>, cmp |-> 0, canon |-> x] :
        R \in Forms(x[1], mm_per_hour, RateUnits)} :
    x \in ArgRains \X ArgMus}
  \cup UNION {
    {[fn |-> "path_attentuation_due_to_rain", args |-> <<R, x[2], L>>, cmp |-> c, canon |-> x] :
        R \in Forms(x[1], mm_per_hour, RateUnits), L \in Forms(x[3], km, LengthUnits), c \in Cmps} :
    x \in ArgRains \X ArgMus \X ArgPaths}
  \cup {[fn |-> "specific_attenuation_due_to_rain", args |-> <<R, mu>>, cmp |-> 0, canon |-> <<R, mu>>] :
        R \in Arrays(ArgRains), mu \in ArgMus}
  \cup {[fn |-> "calculate_geometrical_attenuation", args |-> <<D, L, theta>>, cmp |-> 0,
          canon |-> <<D, L, theta>>] :
        D \in ArgDiams, L \in Arrays(ArgDists), theta \in ArgDivs}

InitArgs ==
  /\ heap = LoadedHeap
  /\ model = 1
  /\ pc = [t \in Threads |-> "idle"]
  /\ frame = [t \in Threads |-> NoFrame]
  /\ last = Outcome("import", <<>>, Return(None, <<>>))
  /\ ncalls = 0
  /\ input \in ArgInputs

NextArgs == CalcGeo \/ CalcSpecific \/ CalcPath

SpecArgs == InitArgs /\ [][NextArgs]_vars


\* ================================================== version dispatcher
\* what a caller can observe of the module in a state: get_version() and the
\* outcome of every formula on the probe arguments
View(h, ref) ==
  [version |-> get_version(h, ref),
   geo |-> [x \in ProbeDiams \X ProbeDists \X ProbeDivs |->
              calculate_geometrical_attenuation(h, ref, x[1], x[2], x[3])],
   specific |-> [x \in ProbeRains \X ProbeMus |->
              specific_attenuation_due_to_rain(h, ref, x[1], x[2])],
   path |-> [x \in ProbeRains \X ProbeMus \X ProbePaths |->
              path_attentuation_due_to_rain(h, ref, x[1], x[2], x[3], ProbeCmp)]]

\* C1: change_version(v) with v other than 1 raises ValueError and leaves the
\* active instance in place: the step on which __init__ decides about such a v
\* ends the call with the error, and __model, get_version() and every formula
\* outcome are what they were before it.
C1_UnsupportedVersionKeepsInstance ==
  [][\A t \in Threads :
       (pc[t] = "init" /\ frame[t].arg # 1 /\ pc'[t] # pc[t])
       => /\ pc'[t] = "idle"
          /\ last'.op = "change_version" /\ last'.exc = "ValueError"
          /\ model' = model
          /\ View(heap', model') = View(heap, model)]_vars

\* a change_version(v), v # 1, has failed after an earlier change succeeded
C1_Witness ==
  /\ last.op = "change_version" /\ last.exc = "ValueError"
  /\ Mag(last.args[1]) # One
  /\ model # 1

\* C2: whatever the interleaving of change_version with get_version and the
\* formula calls, the object a reader took from __model is fully constructed
\* (instance assigned, the instance's version tag and metadata assigned), is not
\* one a change_version in progress is still building or one a failed
\* change_version left behind, and no reader fails on a missing attribute.
C2_ReadersSeeConstructedInstance ==
  /\ Constructed(heap, model)
  /\ \A t \in Threads :
       frame[t].ref # 0 =>
         /\ Constructed(heap, frame[t].ref)
         /\ \A u \in Threads : frame[u].self # frame[t].ref
  /\ last.exc # "AttributeError"

\* a reader holds the instance it read while another thread is between the
\* allocation of a new instance and its publication
C2_Witness ==
  \E t, u \in Threads :
    /\ t # u
    /\ frame[t].ref # 0
    /\ pc[t] \in {"gv_instance", "gv_version"} \cup Formulas
    /\ pc[u] \in {"inner_version", "set_instance"}
    /\ frame[u].arg = 1

\* C3: in every reachable state __model refers to one fully constructed
\* instance whose version tag is 1, get_version() returns that tag (before the
\* first change_version too), and __model changes only on the step on which a
\* change_version that did not fail stores the instance it built.
C3_OneActiveInstance ==
  /\ [](/\ Constructed(heap, model)
        /\ get_version(heap, model) = Return(F(1, 1), <<>>)
        /\ (last.op = "get_version" => last.exc = "" /\ last.ret = F(1, 1)))
  /\ [][model' # model =>
          \E t \in Threads :
            /\ pc[t] = "store_global" /\ pc'[t] = "idle"
            /\ model' = frame[t].self
            /\ last'.op = "change_version" /\ last'.exc = ""]_vars

\* get_version() has returned after a change_version replaced the instance
C3_Witness ==
  /\ last.op = "get_version" /\ last.exc = "" /\ last.ret = F(1, 1)
  /\ model # 1

\* C4: change_version(1) is idempotent: before, between and after any number
\* of change_version(1) calls get_version() returns 1 and every formula has the
\* outcome, value or exception, that it has on the module as loaded.
C4_ChangeVersionIdempotent ==
  /\ View(heap, model) = View(LoadedHeap, 1)
  /\ get_version(heap, model).ret = F(1, 1)

\* two change_version(1) calls have completed, one after the other, and
\* get_version() was called after the second
C4_Witness ==
  /\ ncalls = 2
  /\ \A t \in Threads : pc[t] = "idle"
  /\ Len(heap) = 6
  /\ model = 5
  /\ last.op = "get_version"


\* ====================================================== the formulas
RainFormulas == {"specific_attenuation_due_to_rain", "path_attentuation_due_to_rain"}

\* a shape parameter that is one of the integers -2 .. 2
IsShape(mu) == Mag(mu).d = 1 /\ Mag(mu).n \in -2 .. 2

RainMessage == "Rain rate (R) must be non-negative."

Has(ops, names) == \E i \in DOMAIN ops : ops[i] \in names

\* C5: for every shape parameter that is not one of the integers -2 .. 2, an
\* out-of-range integer or a non-integer number, both module-level rain
\* functions raise ValueError before any table lookup and return no value.
C5_EveryOtherShapeRejected ==
  (last.op \in RainFormulas /\ ~IsShape(last.args[2]))
  => /\ last.exc = "ValueError" /\ last.ret = None
     /\ ~Has(last.ops, {"lookup"})

\* C6: for every rain rate R < 0 and every shape parameter in -2 .. 2 both rain
\* functions raise the rain-rate ValueError, and raise it before the
\* path-averaging division, the power and the logarithms.
C6_NegativeRainRejected ==
  (last.op \in RainFormulas /\ IsShape(last.args[2]) /\ RLt(Mag(last.args[1]), Zero))
  => /\ last.exc = "ValueError" /\ last.msg = RainMessage
     /\ ~Has(last.ops, {"lookup", "pow", "div_F", "log", "test_no_rain", "test_clamp"})

\* path_attentuation_due_to_rain was called with a negative rain rate and a
\* shape parameter of the table, and raised
C6_Witness ==
  /\ last.op = "path_attentuation_due_to_rain"
  /\ IsShape(last.args[2]) /\ RLt(Mag(last.args[1]), Zero)
  /\ last.exc = "ValueError"

\* C7: for every aperture diameter D_r <= 0, whatever the distance and the
\* divergence, calculate_geometrical_attenuation raises its own error
\* ("Capture diameter must be greater than zero.") on the first test, before
\* any area is computed: no value is returned, no division or log10 is reached.
C7_NonPositiveDiameterRejected ==
  (last.op = "calculate_geometrical_attenuation" /\ RLe(Mag(last.args[1]), Zero))
  => /\ last.exc = "ZeroDivisionError"
     /\ last.msg = "Capture diameter must be greater than zero."
     /\ last.ret = None
     /\ last.ops = <<"test_diameter">>

\* the call was made with a negative diameter and a beam of positive width
C7_Witness ==
  /\ last.op = "calculate_geometrical_attenuation"
  /\ RLt(Mag(last.args[1]), Zero)
  /\ Mag(last.args[2]) # Zero /\ Mag(last.args[3]) # Zero
  /\ last.exc = "ZeroDivisionError"

\* |x|
RAbs(x) == IF x.n < 0 THEN RNeg(x) ELSE x

\* C8: for every D_r > 0, L and theta: calculate_geometrical_attenuation
\* returns exactly 0 when D_r >= |L*theta| (A_r >= A_b, equality included), and
\* otherwise 10*log10(A_b/A_r) with A_b/A_r = (L*theta/D_r)^2 > 1, which is
\* strictly positive; so the result is never negative.
C8_GeometricalAttenuationValue ==
  (last.op = "calculate_geometrical_attenuation" /\ RLt(Zero, Mag(last.args[1])))
  => LET D == Mag(last.args[1])
         w == RAbs(RMul(Mag(last.args[2]), Mag(last.args[3])))
         ratio == RMul(RDiv(w, D), RDiv(w, D))
     IN  /\ last.exc = ""
         /\ Sign(last.ret.val) >= 0
         /\ IF RLe(w, D)
            THEN last.ret.val = Const(Zero)
            ELSE /\ last.ret.val = [q |-> Rat(10, 1), sym |-> [fn |-> "log10", arg |-> ratio]]
                 /\ RLt(One, ratio)
                 /\ Sign(last.ret.val) = 1

\* the capture area is smaller than the beam's and a positive attenuation came back
C8_Witness ==
  /\ last.op = "calculate_geometrical_attenuation"
  /\ RLt(Zero, Mag(last.args[1]))
  /\ RLt(Mag(last.args[1]), RAbs(RMul(Mag(last.args[2]), Mag(last.args[3]))))
  /\ last.exc = "" /\ Sign(last.ret.val) = 1

\* the power-law table as the recommendation prints it, in units of 1/10000
PowerLawTable ==
  (-2 :> <<22838, 4050>>) @@ (-1 :> <<15921, 5506>>) @@ (0 :> <<12924, 6436>>) @@
  (1 :> <<11394, 7057>>) @@ (2 :> <<10505, 7497>>)

\* C9: for every shape parameter mu in -2 .. 2 and every R >= 0,
\* specific_attenuation_due_to_rain(R, mu) is k[mu] * R^alpha[mu] with the row
\* of the power-law table for that mu: exactly 0 at R = 0, k[mu] at R = 1.
C9_SpecificAttenuationValue ==
  (last.op = "specific_attenuation_due_to_rain" /\ IsShape(last.args[2])
     /\ RLe(Zero, Mag(last.args[1])))
  => LET R == Mag(last.args[1])
         k == Rat(PowerLawTable[Mag(last.args[2]).n][1], 10000)
         alpha == Rat(PowerLawTable[Mag(last.args[2]).n][2], 10000)
     IN  /\ last.exc = ""
         /\ last.ret.val =
              IF R = Zero THEN Const(Zero)
              ELSE IF R = One THEN Const(k)
              ELSE [q |-> k, sym |-> [fn |-> "pow", base |-> R, exp |-> alpha]]

\* the call was made with mu = 2 and a rain rate above 1 mm/h
C9_Witness ==
  /\ last.op = "specific_attenuation_due_to_rain"
  /\ last.args[2] = F(2, 1) /\ RLt(One, Mag(last.args[1]))
  /\ last.exc = "" /\ last.ret.val.q = Rat(10505, 10000)

\* the unit each signature declares
DeclaredUnit(op) ==
  IF op = "specific_attenuation_due_to_rain" THEN UnitOver(dB, km) ELSE dB

\* C10: every module-level formula returns a value tagged with the unit its
\* signature declares, on every return path: dB for
\* calculate_geometrical_attenuation, dB/km for specific_attenuation_due_to_rain,
\* dB (to the first power) for path_attentuation_due_to_rain.
C10_DeclaredUnits ==
  (last.op \in Formulas /\ last.exc = "")
  => last.ret.kind = "Quantity" /\ last.ret.unit = DeclaredUnit(last.op)

\* C12: for all numeric inputs calculate_link_margin, called on the dispatcher
\* or on the versioned instance, returns exactly
\* P_e - (S_r + A_geo + A_atmo + A_scintillation + A_system): nothing is
\* rejected or clamped, a negative margin is returned as computed, and the
\* module's objects and global are what they were before the call.
C12_LinkMarginIsTheBudgetSum ==
  last.op \in LinkMargins
  => LET a == [i \in 1 .. 6 |-> Mag(last.args[i])]
         losses == RAdd(RAdd(RAdd(RAdd(a[2], a[3]), a[4]), a[5]), a[6])
     IN  /\ last.exc = ""
         /\ last.ret = Num(Const(RSub(a[1], losses)))
         /\ heap = LoadedHeap /\ model = 1

\* a budget with a negative emitted power and positive losses came back negative
C12_Witness ==
  /\ last.op = "__ITU1814__.calculate_link_margin"
  /\ RLt(Mag(last.args[1]), Zero) /\ RLt(Zero, Mag(last.args[6]))
  /\ last.exc = "" /\ RLt(Mag(last.ret), Zero)

\* the exponent the recommendation gives for each range of the visibility V
ExponentRanges(V) ==
  { <<RLt(Rat(50, 1), V), Rat(8, 5)>>,
    <<RLt(Rat(6, 1), V) /\ RLe(V, Rat(50, 1)), Rat(13, 10)>>,
    <<RLe(One, V) /\ RLe(V, Rat(6, 1)), Rat(8 * V.n + 17 * V.d, 50 * V.d)>>,
    <<RLe(Rat(1, 2), V) /\ RLt(V, One), Rat(2 * V.n - V.d, 2 * V.d)>>,
    <<RLt(V, Rat(1, 2)), Zero>> }

\* C17: calculate_specific_attenuation_due_to_suspended_particles raises
\* ValueError for every wavelength outside [0.4, 1.55], whatever the
\* visibility and before any exponent is selected; for a wavelength inside,
\* both ends included, exactly one of the five visibility ranges applies and
\* the call returns 17 * V * (0.55 / wavelength) ** q with the q of that range.
C17_SuspendedParticlesDomain ==
  last.op = "calculate_specific_attenuation_due_to_suspended_particles"
  => LET V == Mag(last.args[1])
         w == Mag(last.args[2])
         applies == {r \in ExponentRanges(V) : r[1]}
     IN  IF w.n * 5 < 2 * w.d \/ w.n * 20 > 31 * w.d
         THEN /\ last.exc = "ValueError" /\ last.ret = None
              /\ last.ops = <<"test_wavelength">>
         ELSE /\ last.exc = ""
              /\ Cardinality(applies) = 1
              /\ \A r \in applies :
                    last.ret.val =
                      IF V = Zero THEN Const(Zero)
                      ELSE IF r[2] = Zero \/ w = Rat(11, 20) THEN Const(Rat(17 * V.n, V.d))
                      ELSE [q |-> Rat(17 * V.n, V.d),
                            sym |-> [fn |-> "pow", base |-> Rat(11 * w.d, 20 * w.n), exp |-> r[2]]]

\* the call was made at the lower end of the wavelength interval with a
\* visibility of 1 km, and returned the value with the exponent 0.5
C17_Witness ==
  /\ last.op = "calculate_specific_attenuation_due_to_suspended_particles"
  /\ last.args = <<F(1, 1), F(2, 5)>>
  /\ last.exc = "" /\ last.ret.val.sym.exp = Rat(1, 2)

\* C13: for rain rate R = 0, every shape parameter in -2 .. 2 and every path
\* length L > 0, path_attentuation_due_to_rain returns exactly 0 and does not
\* fail.
C13_NoRainGivesZero ==
  (/\ last.op = "path_attentuation_due_to_rain"
   /\ Mag(last.args[1]) = Zero /\ IsShape(last.args[2]) /\ RLt(Zero, Mag(last.args[3])))
  => last.exc = "" /\ last.ret.val = Const(Zero)

\* the second table as the recommendation prints it, in units of 1/1000000:
\* (p0, p1, p2, k0, k1, k2) for each mu
PathTable ==
  (-2 :> <<10012, 25381, -1606, 250329, -35278, 8349>>) @@
  (-1 :> <<14551, 10932, 1532, 279336, 23974, 4421>>) @@
  (0 :> <<15940, -1476, 8297, 117663, 29602, 2142>>) @@
  (1 :> <<23468, 2897, 8912, 90689, 34955, 4583>>) @@
  (2 :> <<-316, 62233, -7835, 192092, -81869, 33669>>)

\* 1 + L * (R - 6.2) / 2623, the denominator of the path-averaging factor F
FDenominator(R, L) == RAdd(One, RDiv(RMul(L, RSub(R, Rat(31, 5))), Rat(2623, 1)))

\* C14: for every shape parameter in -2 .. 2, every R > 0 and every L > 0 at
\* which F is defined, path_attentuation_due_to_rain does not fail and returns
\* max(0, A* - G), A* = k * R^alpha * L * F and G = a * L^b with a and b the
\* polynomials in ln R of the second table's row: exactly 0 whenever
\* A* - G <= 0, which includes every F < 0 with a > 0, and A* - G itself
\* otherwise; the value returned is never negative.
C14_PathAttenuationClamped ==
  (/\ last.op = "path_attentuation_due_to_rain" /\ IsShape(last.args[2])
   /\ RLt(Zero, Mag(last.args[1])) /\ RLt(Zero, Mag(last.args[3]))
   /\ FDenominator(Mag(last.args[1]), Mag(last.args[3])) # Zero)
  => LET R == Mag(last.args[1])
         mu == Mag(last.args[2]).n
         L == Mag(last.args[3])
         k == Rat(PowerLawTable[mu][1], 10000)
         alpha == Rat(PowerLawTable[mu][2], 10000)
         c == [i \in 1 .. 6 |-> Rat(PathTable[mu][i], 1000000)]
         F_rain == RInv(FDenominator(R, L))
         star == [q |-> RMul(k, RMul(L, F_rain)),
                  sym |-> IF R = One THEN SymOne ELSE [fn |-> "pow", base |-> R, exp |-> alpha]]
         a == IF R = One THEN Const(c[1])
              ELSE [q |-> One, sym |-> [fn |-> "logpoly", c0 |-> c[1], c1 |-> c[2], c2 |-> c[3], arg |-> R]]
         b == IF R = One THEN Const(c[4])
              ELSE [q |-> One, sym |-> [fn |-> "logpoly", c0 |-> c[4], c1 |-> c[5], c2 |-> c[6], arg |-> R]]
         G == IF L = One THEN a
              ELSE IF R = One THEN [q |-> c[1], sym |-> [fn |-> "pow", base |-> L, exp |-> c[4]]]
              ELSE [q |-> One, sym |-> [fn |-> "G", a |-> a, L |-> L, b |-> b]]
         sign == IF R = One /\ L = One THEN RCmp(star.q, c[1])
                 ELSE IF R = One /\ RLt(F_rain, Zero) /\ RLt(Zero, c[1]) THEN -1
                 ELSE IF R = One /\ RLt(Zero, F_rain) /\ RLt(c[1], Zero) THEN 1
                 ELSE input.cmp
     IN  /\ last.exc = ""
         /\ Sign(last.ret.val) >= 0
         /\ IF sign <= 0
            THEN last.ret.val = Const(Zero)
            ELSE last.ret.val =
                   [q |-> One, sym |-> [fn |-> "star_minus_G", star |-> star, G |-> G, sign |-> 1]]

\* the call was made at R = 1 mm/h over the long path, where F is negative and
\* G positive, and returned 0
C14_Witness ==
  /\ last.op = "path_attentuation_due_to_rain"
  /\ last.args = <<F(1, 1), F(0, 1), LongPath>>
  /\ RLt(FDenominator(One, Mag(LongPath)), Zero)
  /\ last.exc = "" /\ last.ret.val = Const(Zero)

\* x < y for two results of calculate_geometrical_attenuation: each is 0 or
\* 10 * log10 of a ratio above 1, and log10 is increasing
GeoLess(x, y) ==
  IF IsConst(x) /\ IsConst(y) THEN RLt(x.q, y.q)
  ELSE IF IsConst(x) THEN RLt(x.q, Zero) \/ (x.q = Zero /\ Sign(y) = 1)
  ELSE IF IsConst(y) THEN RLt(Zero, y.q) \/ (y.q = Zero /\ Sign(x) = -1)
  ELSE x.q = y.q /\ RLt(Zero, x.q) /\ RLt(x.sym.arg, y.sym.arg)

\* the value of another call with the same aperture
A_geo(D, L, theta) == calculate_geometrical_attenuation(heap, model, D, L, theta)

\* C15 as stated: for fixed D_r > 0 and a result above 0, every larger
\* distance L2 > L1 at the same divergence, and every larger divergence
\* theta2 > theta1 at the same distance, gives a strictly larger result.
C15_IncreasingInDistanceAndDivergence ==
  (/\ last.op = "calculate_geometrical_attenuation" /\ last.exc = ""
   /\ Sign(last.ret.val) = 1)
  => /\ \A L2 \in Dists :
          RLt(Mag(last.args[2]), Mag(L2))
          => LET r == A_geo(last.args[1], L2, last.args[3])
             IN  r.exc = "" /\ GeoLess(last.ret.val, r.ret.val)
     /\ \A theta2 \in Divs :
          RLt(Mag(last.args[3]), Mag(theta2))
          => LET r == A_geo(last.args[1], last.args[2], theta2)
             IN  r.exc = "" /\ GeoLess(last.ret.val, r.ret.val)

\* C15 (amended): for fixed D_r > 0 and a result above 0, every distance of
\* larger magnitude |L2| > |L1| at the same divergence, and every divergence
\* of larger magnitude |theta2| > |theta1| at the same distance, gives a
\* strictly larger result; in particular the result is strictly increasing
\* over the non-negative distances and divergences.
C15_IncreasingInMagnitude ==
  (/\ last.op = "calculate_geometrical_attenuation" /\ last.exc = ""
   /\ Sign(last.ret.val) = 1)
  => /\ \A L2 \in Dists :
          RLt(RAbs(Mag(last.args[2])), RAbs(Mag(L2)))
          => LET r == A_geo(last.args[1], L2, last.args[3])
             IN  r.exc = "" /\ GeoLess(last.ret.val, r.ret.val)
     /\ \A theta2 \in Divs :
          RLt(RAbs(Mag(last.args[3])), RAbs(Mag(theta2)))
          => LET r == A_geo(last.args[1], last.args[2], theta2)
             IN  r.exc = "" /\ GeoLess(last.ret.val, r.ret.val)

\* a positive attenuation came back for a call that has both a longer
\* distance and a wider divergence to be compared with
C15_Witness ==
  /\ last.op = "calculate_geometrical_attenuation"
  /\ last.exc = "" /\ Sign(last.ret.val) = 1
  /\ \E L2 \in Dists : RLt(RAbs(Mag(last.args[2])), RAbs(Mag(L2)))
  /\ \E theta2 \in Divs : RLt(RAbs(Mag(last.args[3])), RAbs(Mag(theta2)))

\* the outcome of the call made, and of the same call with every argument a
\* bare number in the documented unit
Canonical ==
  IF last.op = "calculate_geometrical_attenuation"
  THEN calculate_geometrical_attenuation(heap, model, input.canon[1], input.canon[2], input.canon[3])
  ELSE IF last.op = "specific_attenuation_due_to_rain"
  THEN specific_attenuation_due_to_rain(heap, model, input.canon[1], input.canon[2])
  ELSE path_attentuation_due_to_rain(heap, model, input.canon[1], input.canon[2], input.canon[3], input.cmp)

\* C11: the outcome of a module-level formula depends only on the physical
\* quantities passed, not on the units they are expressed in: a call with
\* unit-tagged arguments (x km, 1000*x m, ...) has the outcome of the call with
\* the bare numbers of the documented units.
C11_UnitIndependent ==
  last.op \in Formulas
  => /\ last.exc = Canonical.exc
     /\ last.ret = Canonical.ret

\* the scalar call for element j of an array call: each array argument is
\* replaced by its j-th element
ElementCall(j) ==
  LET a == [i \in DOMAIN last.args |->
              IF IsArray(last.args[i]) THEN Num(Elems(last.args[i])[j]) ELSE last.args[i]]
  IN  IF last.op = "calculate_geometrical_attenuation"
      THEN calculate_geometrical_attenuation(heap, model, a[1], a[2], a[3])
      ELSE specific_attenuation_due_to_rain(heap, model, a[1], a[2])

\* C16: a formula called with an array argument treats every element as the
\* scalar call does: if every element alone is accepted, the call returns as
\* many results as there are elements, the i-th being the scalar result for
\* the i-th input; the call fails only if some element alone is refused.
C16_ArraysElementwise ==
  (/\ last.op \in {"calculate_geometrical_attenuation", "specific_attenuation_due_to_rain"}
   /\ \E i \in DOMAIN last.args : IsArray(last.args[i]))
  => LET n == Len(Elems(last.args[CHOOSE i \in DOMAIN last.args : IsArray(last.args[i])]))
     IN  IF \A j \in 1 .. n : ElementCall(j).exc = ""
         THEN /\ last.exc = ""
              /\ Len(Elems(last.ret)) = n
              /\ \A j \in 1 .. n :
                    /\ Elems(last.ret)[j] = ElementCall(j).ret.val
                    /\ last.ret.unit = ElementCall(j).ret.unit
         ELSE last.exc # ""

====
